---- MODULE Spec2Model ----
(***************************************************************************)
(* Model of financial_data_processor.py: a linear batch job that reads a   *)
(* CSV of transactions, drops rows with a null key field, casts three      *)
(* columns, fills a default currency, deduplicates on transaction_id,      *)
(* overwrites a Delta table and reads it back.                             *)
(*                                                                         *)
(* A cell value is an option: NULL (<<>>) or <<v>>.  A DataFrame is a set  *)
(* of records; the field `row` is the line of the CSV file the record was  *)
(* read from, so that equal lines stay distinct records (a table is a bag).*)
(* A Python name that is not bound yet holds Unbound; a bound DataFrame    *)
(* name holds <<table>>.                                                   *)
(***************************************************************************)
EXTENDS Integers, Sequences, FiniteSets

VARIABLES
    csv_file,        \* the file at csv_input_path: [exists, lines]
    store,           \* the Delta table at delta_output_path: its commits
    run,             \* which execution of the script this is
    pc,              \* position of the script
    spark,           \* the session: "active" or "stopped"
    stop_calls,      \* number of spark.stop() calls of this process
    df,              \* ingested DataFrame
    cleaned_df,      \* after dropna
    transformed_df,  \* after the casts and fillna
    final_df,        \* after dropDuplicates
    read_delta_df,   \* the verification read
    out,             \* what the process printed, in order
    exit_status      \* <<>> while running, <<code>> once the process ended

vars == <<csv_file, store, run, pc, spark, stop_calls, df, cleaned_df,
          transformed_df, final_df, read_delta_df, out, exit_status>>

-----------------------------------------------------------------------------
(* Bounds and input domains *)

MaxRows == 2

NULL == <<>>
Unbound == <<>>

RawIds == {"", "1", "2", "abc"}
RawAmounts == {"", "10", "20", "abc"}
RawDates == {"2024-01-15", "not-a-date"}
RawCurrencies == {"", "USD"}

RawRows ==
    [transaction_id : RawIds, amount : RawAmounts,
     date : RawDates, currency : RawCurrencies]

\* A table already stored at the output location by some other producer.
PriorTable ==
    {[row |-> 0, transaction_id |-> <<99>>, amount |-> <<1>>,
      date |-> <<"2000-01-01">>, currency |-> <<"EUR">>]}

\* Rank of a raw line; the file contents are enumerated up to the order of
\* the lines, which no operator of the job depends on.
IdRank(s) == CASE s = "" -> 0 [] s = "1" -> 1 [] s = "2" -> 2 [] OTHER -> 3
AmountRank(s) == CASE s = "" -> 0 [] s = "10" -> 1 [] s = "20" -> 2 [] OTHER -> 3
DateRank(s) == IF s = "2024-01-15" THEN 0 ELSE 1
CurrencyRank(s) == IF s = "" THEN 0 ELSE 1
LineRank(l) ==
    IdRank(l.transaction_id) * 16 + AmountRank(l.amount) * 4
        + DateRank(l.date) * 2 + CurrencyRank(l.currency)

CsvContents ==
    UNION {{ls \in [1..n -> RawRows] :
               \A i \in 1..(n - 1) : LineRank(ls[i]) <= LineRank(ls[i + 1])}
           : n \in 0..MaxRows}

-----------------------------------------------------------------------------
(* The engine's operators, as the script uses them *)

\* CSV reader: an empty cell is read as null.
Cell(s) == IF s = "" THEN NULL ELSE <<s>>

ReadCsv(lines) ==
    {[row |-> i,
      transaction_id |-> Cell(lines[i].transaction_id),
      amount |-> Cell(lines[i].amount),
      date |-> Cell(lines[i].date),
      currency |-> Cell(lines[i].currency)] : i \in DOMAIN lines}

\* cast("int"), cast("double"), cast("date"): null stays null, a value that
\* cannot be coerced becomes null.
CastInt(v) ==
    IF v = NULL THEN NULL
    ELSE CASE v[1] = "1" -> <<1>> [] v[1] = "2" -> <<2>> [] OTHER -> NULL

CastDouble(v) ==
    IF v = NULL THEN NULL
    ELSE CASE v[1] = "10" -> <<10>> [] v[1] = "20" -> <<20>> [] OTHER -> NULL

CastDate(v) ==
    IF v = NULL THEN NULL
    ELSE IF v[1] = "2024-01-15" THEN v ELSE NULL

\* df.dropna(subset=['transaction_id', 'amount'])
dropna(t) == {r \in t : r.transaction_id # NULL /\ r.amount # NULL}

\* the three withColumn(...cast...) calls, on one record
CastRow(r) ==
    [r EXCEPT !.amount = CastDouble(r.amount),
              !.date = CastDate(r.date),
              !.transaction_id = CastInt(r.transaction_id)]

\* Variant: a record whose date cannot be coerced is dropped.
withColumnCastsDropping(t) == {CastRow(r) : r \in {q \in t : CastDate(q.date) # NULL}}

withColumnCasts(t) == {CastRow(r) : r \in t}

\* Variant: no default is filled in.
fillnaNothing(t) == t

\* fillna({"currency": "UNKNOWN"})
fillna(t) ==
    {IF r.currency = NULL THEN [r EXCEPT !.currency = <<"UNKNOWN">>] ELSE r
        : r \in t}

Keys(t) == {r.transaction_id : r \in t}

\* Variant: every record is kept.
dropDuplicatesKeepAll(t) == {t}

\* dropDuplicates(['transaction_id']): the tables the engine may produce, one
\* record for each key, which record of a key being the engine's choice.
dropDuplicates(t) ==
    {s \in SUBSET t :
        \A k \in Keys(t) : Cardinality({r \in s : r.transaction_id = k}) = 1}

\* The table at the output location is its log of commits, oldest first;
\* the last commit is the current version, no commit means no table.
Exists(log) == log # <<>>

Current(log) == log[Len(log)].data

\* Variant: mode("append"), the new commit adds to the current version.
SaveAppend(log, t, w) ==
    Append(log, [writer |-> w,
                 data |-> IF Exists(log) THEN Current(log) \cup t ELSE t])

\* write.format("delta").mode("overwrite").save(path): a new commit whose
\* data is the DataFrame alone.
Save(log, t, w) == Append(log, [writer |-> w, data |-> t])

\* print(...)
Say(o, m) == Append(o, m)

Printed(m) == \E i \in DOMAIN out : out[i] = m

-----------------------------------------------------------------------------
(* The script *)

\* Lines 6-22 have run: the session is acquired, the paths are set.
Init ==
    /\ csv_file \in {[exists |-> FALSE, lines |-> <<>>]}
                     \cup {[exists |-> TRUE, lines |-> ls] : ls \in CsvContents}
    /\ store \in {<<>>, <<[writer |-> "other", data |-> PriorTable]>>}
    /\ run = "first"
    /\ pc = "ingest"
    /\ spark = "active"
    /\ stop_calls = 0
    /\ df = Unbound
    /\ cleaned_df = Unbound
    /\ transformed_df = Unbound
    /\ final_df = Unbound
    /\ read_delta_df = Unbound
    /\ out = <<"Spark Session initialized.">>
    /\ exit_status = <<>>

\* Lines 25-34: the read, printSchema and show all succeed.
IngestOk ==
    /\ pc = "ingest"
    /\ csv_file.exists
    /\ df' = <<ReadCsv(csv_file.lines)>>
    /\ out' = Say(Say(out, "Reading data"), "Data ingested successfully.")
    /\ pc' = "transform"
    /\ UNCHANGED <<csv_file, store, run, spark, stop_calls, cleaned_df,
                   transformed_df, final_df, read_delta_df, exit_status>>

\* Variant: the handler without exit(), the script goes on with an empty df.
IngestFailFallsThrough ==
    /\ pc = "ingest"
    /\ out' = Say(Say(out, "Reading data"), "Error reading CSV")
    /\ spark' = "stopped"
    /\ stop_calls' = stop_calls + 1
    /\ df' = <<{}>>
    /\ pc' = "transform"
    /\ UNCHANGED <<csv_file, store, run, cleaned_df, transformed_df,
                   final_df, read_delta_df, exit_status>>

\* Lines 25-38: the read (file missing, unreadable, unparsable), printSchema
\* or show raises; the handler prints, stops the session and calls exit().
IngestFail ==
    /\ pc = "ingest"
    /\ out' = Say(Say(out, "Reading data"), "Error reading CSV")
    /\ spark' = "stopped"
    /\ stop_calls' = stop_calls + 1
    /\ exit_status' = <<0>>
    /\ pc' = "done"
    /\ UNCHANGED <<csv_file, store, run, df, cleaned_df, transformed_df,
                   final_df, read_delta_df>>

\* Lines 41-60 without an exception.
TransformOk ==
    /\ pc = "transform"
    /\ cleaned_df' = <<dropna(df[1])>>
    /\ transformed_df' = <<fillna(withColumnCasts(cleaned_df'[1]))>>
    /\ \E t \in dropDuplicates(transformed_df'[1]) : final_df' = <<t>>
    /\ out' = Say(Say(out, "Applying basic cleaning and transformations..."),
                  "Cleaning and transformation complete.")
    /\ pc' = "write"
    /\ UNCHANGED <<csv_file, store, run, spark, stop_calls, df,
                   read_delta_df, exit_status>>

\* Lines 41-60 raise (a column missing from the header, the job behind
\* show(5) failing): nothing catches it, the interpreter prints the
\* traceback and the process ends with status 1.
TransformRaise ==
    /\ pc = "transform"
    /\ out' = Say(Say(out, "Applying basic cleaning and transformations..."),
                  "Traceback")
    /\ exit_status' = <<1>>
    /\ pc' = "done"
    /\ UNCHANGED <<csv_file, store, run, spark, stop_calls, df, cleaned_df,
                   transformed_df, final_df, read_delta_df>>

\* Lines 63-71.
WriteOk ==
    /\ pc = "write"
    /\ store' = Save(store, final_df[1], run)
    /\ out' = Say(Say(out, "Writing processed data to Delta Lake"),
                  "Data successfully written to Delta Lake.")
    /\ pc' = "verify"
    /\ UNCHANGED <<csv_file, run, spark, stop_calls, df, cleaned_df,
                   transformed_df, final_df, read_delta_df, exit_status>>

\* Variant: the write error is not caught.
WriteFailReraises ==
    /\ pc = "write"
    /\ out' = Say(Say(out, "Writing processed data to Delta Lake"), "Traceback")
    /\ exit_status' = <<1>>
    /\ pc' = "done"
    /\ UNCHANGED <<csv_file, store, run, spark, stop_calls, df, cleaned_df,
                   transformed_df, final_df, read_delta_df>>

\* Lines 63-73 when save raises.
WriteFail ==
    /\ pc = "write"
    /\ out' = Say(Say(out, "Writing processed data to Delta Lake"),
                  "Error writing to Delta Lake")
    /\ pc' = "verify"
    /\ UNCHANGED <<csv_file, store, run, spark, stop_calls, df, cleaned_df,
                   transformed_df, final_df, read_delta_df, exit_status>>

\* Lines 76-80.
VerifyOk ==
    /\ pc = "verify"
    /\ Exists(store)
    /\ read_delta_df' = <<Current(store)>>
    /\ out' = Say(Say(out, "Verifying data from Delta Lake"),
                  "Delta Lake read verification successful.")
    /\ pc' = "teardown"
    /\ UNCHANGED <<csv_file, store, run, spark, stop_calls, df, cleaned_df,
                   transformed_df, final_df, exit_status>>

\* Lines 76-82 when load or show raises (in particular when no table exists).
VerifyFail ==
    /\ pc = "verify"
    /\ out' = Say(Say(out, "Verifying data from Delta Lake"),
                  "Error reading from Delta Lake for verification")
    /\ pc' = "teardown"
    /\ UNCHANGED <<csv_file, store, run, spark, stop_calls, df, cleaned_df,
                   transformed_df, final_df, read_delta_df, exit_status>>

\* Lines 86-88 and the end of the script.
Teardown ==
    /\ pc = "teardown"
    /\ spark' = "stopped"
    /\ stop_calls' = stop_calls + 1
    /\ out' = Say(Say(out, "Stopping Spark Session."), "Processing complete.")
    /\ exit_status' = <<0>>
    /\ pc' = "done"
    /\ UNCHANGED <<csv_file, store, run, df, cleaned_df, transformed_df,
                   final_df, read_delta_df>>

\* The script is started again on the same input file and output location:
\* a new process, lines 6-22.
Rerun ==
    /\ pc = "done"
    /\ run = "first"
    /\ run' = "second"
    /\ pc' = "ingest"
    /\ spark' = "active"
    /\ stop_calls' = 0
    /\ df' = Unbound
    /\ cleaned_df' = Unbound
    /\ transformed_df' = Unbound
    /\ final_df' = Unbound
    /\ read_delta_df' = Unbound
    /\ out' = <<"Spark Session initialized.">>
    /\ exit_status' = <<>>
    /\ UNCHANGED <<csv_file, store>>

Next ==
    \/ IngestOk
    \/ IngestFail
    \/ TransformOk
    \/ TransformRaise
    \/ WriteOk
    \/ WriteFail
    \/ VerifyOk
    \/ VerifyFail
    \/ Teardown
    \/ Rerun

Spec == Init /\ [][Next]_vars

-----------------------------------------------------------------------------
(* Properties *)

\* The column values of a record, without the line it came from.
Values(r) ==
    [transaction_id |-> r.transaction_id, amount |-> r.amount,
     date |-> r.date, currency |-> r.currency]

RecordsOf(t) == {Values(r) : r \in t}

Transformed == final_df # Unbound

IngestionFailed == Printed("Error reading CSV")
WriteFailed == Printed("Error writing to Delta Lake")
VerificationFailed == Printed("Error reading from Delta Lake for verification")
Completed == Printed("Processing complete.")

\* What the casts make of the record q of the null-filtered table, column by
\* column: a numeral becomes its number, a date in ISO form stays, a value
\* that cannot be coerced becomes null; the line and the currency are kept.
CoercedFrom(q, r) ==
    /\ r.row = q.row
    /\ (q.transaction_id = <<"1">>) = (r.transaction_id = <<1>>)
    /\ (q.transaction_id = <<"2">>) = (r.transaction_id = <<2>>)
    /\ (q.transaction_id = <<"abc">>) = (r.transaction_id = NULL)
    /\ (q.amount = <<"10">>) = (r.amount = <<10>>)
    /\ (q.amount = <<"20">>) = (r.amount = <<20>>)
    /\ (q.amount = <<"abc">>) = (r.amount = NULL)
    /\ (q.date = <<"2024-01-15">>) = (r.date = <<"2024-01-15">>)
    /\ (q.date = <<"not-a-date">>) = (r.date = NULL)

\* The last commit is this run's.
WrittenByThisRun == Exists(store) /\ store[Len(store)].writer = run

\* C1: every record the Transformer outputs has a non-null transaction_id
\* and a non-null amount, also when the input value was present but cannot
\* be coerced to int / double.
C1_OutputKeyFieldsNonNull ==
    Transformed =>
        \A r \in final_df[1] : r.transaction_id # NULL /\ r.amount # NULL

\* C2: the output of deduplication holds exactly one record, taken unchanged
\* from the default-filled table, for each transaction_id of that table: no
\* two output records share a transaction_id and no transaction_id is lost.
C2_OneRecordPerTransactionId ==
    Transformed =>
        /\ final_df[1] \subseteq transformed_df[1]
        /\ \A r1, r2 \in final_df[1] :
               r1.transaction_id = r2.transaction_id => r1 = r2
        /\ \A q \in transformed_df[1] :
               \E r \in final_df[1] : r.transaction_id = q.transaction_id

C2_Witness ==
    /\ Transformed
    /\ Cardinality(final_df[1]) = 1
    /\ \E q1, q2 \in transformed_df[1] :
           /\ q1.transaction_id = <<1>> /\ q2.transaction_id = <<1>>
           /\ q1.amount = <<10>> /\ q2.amount = <<20>>

C4_SessionReleasedOnce ==
    pc = "done" => spark = "stopped" /\ stop_calls = 1

\* C5: when ingestion fails the error is reported and the run ends at once:
\* no Transformer step, no write and no verification read is attempted, and
\* the output location gets no commit from this run.
C5_IngestionFailureEndsRun ==
    IngestionFailed =>
        /\ pc = "done"
        /\ df = Unbound /\ cleaned_df = Unbound /\ transformed_df = Unbound
        /\ final_df = Unbound /\ read_delta_df = Unbound
        /\ ~Printed("Applying basic cleaning and transformations...")
        /\ ~Printed("Writing processed data to Delta Lake")
        /\ ~Printed("Verifying data from Delta Lake")
        /\ \A i \in DOMAIN store : store[i].writer # run

C5_Witness ==
    /\ IngestionFailed
    /\ ~csv_file.exists
    /\ ~Exists(store)
    /\ pc = "done"

\* C6: the exit status tells an ingestion failure from success: non-zero
\* after an ingestion failure, zero after a completed run, write and
\* verification failures included.
C6_ExitStatusDistinguishes ==
    pc = "done" =>
        /\ (IngestionFailed => exit_status # <<0>>)
        /\ (Completed => exit_status = <<0>>)

\* C7 as stated: only an ingestion error aborts the run; a failed write goes
\* on to verification and teardown, a failed verification to teardown, and
\* every other non-ingestion error is printed without aborting, so that a
\* run whose ingestion succeeded always reaches the end of the script.
C7_OnlyIngestionAborts ==
    /\ WriteFailed => pc \in {"verify", "teardown", "done"}
    /\ VerificationFailed => pc \in {"teardown", "done"}
    /\ (pc = "done" /\ ~IngestionFailed) => (Completed /\ exit_status = <<0>>)

\* C7 amended: a write failure and a verification failure are printed and
\* not re-raised: a failed write goes on to verification and teardown, a
\* failed verification to teardown, and such a run ends completed with the
\* session stopped. The run ends before teardown only on an ingestion error
\* or on an exception in the Transformer block, which nothing catches.
C7_CaughtErrorsDoNotAbort ==
    /\ WriteFailed =>
           /\ pc \in {"verify", "teardown", "done"}
           /\ pc # "verify" => Printed("Verifying data from Delta Lake")
    /\ VerificationFailed => pc \in {"teardown", "done"}
    /\ (pc = "done" /\ (WriteFailed \/ VerificationFailed)) =>
           (Completed /\ exit_status = <<0>> /\ spark = "stopped")
    /\ (pc = "done" /\ ~Completed) =>
           \/ IngestionFailed
           \/ /\ Printed("Traceback")
              /\ Printed("Applying basic cleaning and transformations...")
              /\ ~Printed("Writing processed data to Delta Lake")
              /\ exit_status = <<1>>

C7_Witness ==
    pc = "done" /\ WriteFailed /\ VerificationFailed /\ Completed

\* C8: after a successful write the current version of the output location
\* is exactly this run's transformed table, with no record of an earlier
\* version, and the verification read returns that table.
C8_OverwriteSupersedes ==
    WrittenByThisRun =>
        /\ Current(store) = final_df[1]
        /\ Current(store) \cap PriorTable = {}
        /\ read_delta_df # Unbound => read_delta_df[1] = final_df[1]

C8_Witness ==
    /\ WrittenByThisRun
    /\ Len(store) = 2
    /\ store[1].writer = "other"
    /\ Cardinality(final_df[1]) = 2
    /\ read_delta_df = final_df

\* C9: two runs on the same input and output location leave the same set of
\* records as one run, whatever the input.
C9_Idempotent ==
    \A i, j \in DOMAIN store :
        (store[i].writer = "first" /\ store[j].writer = "second") =>
            RecordsOf(store[i].data) = RecordsOf(store[j].data)

\* C10, the part about the casts: the casts keep every record of the
\* null-filtered table, and in each record exactly the values that cannot be
\* coerced become null.
CastsKeepRecords ==
    /\ Cardinality(transformed_df[1]) = Cardinality(cleaned_df[1])
    /\ \A q \in cleaned_df[1] : \E r \in transformed_df[1] : CoercedFrom(q, r)

\* A record of the input with an unparsable date and both key fields present.
BadDateRecord(q) ==
    q.date = <<"not-a-date">> /\ q.transaction_id # NULL /\ q.amount # NULL

\* C10 as stated: type normalization never aborts and removes no record, a
\* value that cannot be coerced becomes null in its column only, and a record
\* with an unparsable date and both key fields present is in the output with
\* a null date.
C10_BadDateRecordInOutput ==
    /\ pc = "transform" => ENABLED TransformOk
    /\ Transformed =>
           /\ CastsKeepRecords
           /\ \A q \in df[1] :
                  BadDateRecord(q) =>
                      \E r \in final_df[1] :
                          /\ r.date = NULL
                          /\ CoercedFrom([q EXCEPT !.row = r.row], r)

\* C10 amended: type normalization never aborts and removes no record, a
\* value that cannot be coerced becomes null in its column only, and a record
\* with an unparsable date and both key fields present leaves type
\* normalization and default-fill with a null date; the output holds exactly
\* one record with its transaction_id, which is that record unless
\* deduplication kept another record with the same transaction_id.
C10_BadDateRecordKept ==
    /\ pc = "transform" => ENABLED TransformOk
    /\ Transformed =>
           /\ CastsKeepRecords
           /\ \A q \in df[1] :
                  BadDateRecord(q) =>
                      \E t \in transformed_df[1] :
                          /\ t.row = q.row
                          /\ t.date = NULL
                          /\ Cardinality({r \in final_df[1] :
                                 r.transaction_id = t.transaction_id}) = 1
                          /\ \/ t \in final_df[1]
                             \/ \E o \in transformed_df[1] :
                                    /\ o.row # q.row
                                    /\ o.transaction_id = t.transaction_id
                                    /\ o \in final_df[1]

C10_Witness ==
    /\ Transformed
    /\ \E q \in df[1] :
           /\ BadDateRecord(q)
           /\ \E r \in final_df[1] : r.row = q.row /\ r.date = NULL
    /\ \E q \in df[1] :
           /\ BadDateRecord(q)
           /\ ~ \E r \in final_df[1] : r.row = q.row
====
